---- MODULE Spec2Model ----
(***************************************************************************)
(* FlaskTester: the Authenticator (credential stores, setters, hook and    *)
(* the scheme selection of setAuth), Client.request and its two transports,*)
(* modelled from src/FlaskTester.py.                                       *)
(* Python dictionaries are functions whose DOMAIN is the set of keys.      *)
(***************************************************************************)
EXTENDS Naturals, Sequences, FiniteSets, TLC

\* Python's None (logins, schemes and values are strings, so is the marker)
None == "None"

\* ---------------------------------------------------------------- bounds
\* a test keeps at most this many passwords, tokens and cookies stored at a time
MaxStored == 2

Tokens == {"tok1"}
Passwords == {"pw1"}
Logins == {"calvin", "hobbes"}
\* cookie names a test stores: an ordinary one, and the token cookie's name
CookieNames == {"lang", "auth"}
CookieVals == {"en"}
Hooks == {"authHook"}

\* ------------------------------------------------- class-level constants
_TOKEN_SCHEMES == {"bearer", "header", "cookie", "tparam"}
_PASS_SCHEMES == {"basic", "param"}
_AUTH_SCHEMES == {"fake", "none"} \cup _TOKEN_SCHEMES \cup _PASS_SCHEMES

\* constructor defaults of the carrier names
_user == "USER"
_pass == "PASS"
_login == "LOGIN"
_bearer == "Bearer"
_header == "Auth"
_cookie == "auth"
_tparam == "AUTH"

\* scheme arguments a caller may pass: unset, the eight schemes, an unknown one
AuthArgs == {None} \cup _AUTH_SCHEMES \cup {"foobla"}

\* request parameter bags and cookie bags a caller may pass to setAuth
NoDict == <<>>
Requests ==
  { [kw |-> NoDict, ck |-> NoDict],
    [kw |-> [json |-> [k |-> "v"]], ck |-> NoDict],
    [kw |-> [data |-> NoDict], ck |-> [lang |-> "it"]],
    [kw |-> [headers |-> [Accept |-> "text"]], ck |-> NoDict],
    [kw |-> [headers |-> NoDict, json |-> NoDict, data |-> [k |-> "v"]], ck |-> [auth |-> "old"]] }

\* allowed lists: the constructor's default, those of the repository's tests,
\* and one whose only token carrier is the cookie
AllowLists ==
  { {"bearer", "basic", "param", "none"},
    {"bearer", "header", "tparam", "cookie"},
    {"basic", "param", "fake"},
    {"cookie", "fake", "none"} }

\* ------------------------------------------------------------------ state
VARIABLES
  _allow,       \* allowed schemes
  _ptype,       \* default parameter type
  _has_pass,    \* some password scheme is allowed
  _has_token,   \* some token scheme is allowed
  _auth_hook,   \* registered hook or None
  _passes,      \* login -> password
  _tokens,      \* login -> token
  _cookies,     \* login -> name -> value
  kw,           \* the caller's request parameter bag
  ck,           \* the caller's request cookie bag
  pending,      \* the bags are built and not yet passed to setAuth
  last,         \* the last call: its arguments and its outcome
  _default_login, \* Client: the login of a request without login option
  _cookie_names,  \* FlaskClient: every cookie name it has sent so far
  jar,          \* FlaskClient: the cookie jar of the application's test client
  req,          \* the last Client.request: its arguments and its outcome
  net,          \* the last RequestClient._request: its arguments and its outcome
  held,         \* a mapping object the caller keeps: its content, and the option
                \* under which the current call was given it, or None
  FLASK_TESTER_TESTING  \* whether the environment has this variable

vars == <<_allow, _ptype, _has_pass, _has_token, _auth_hook, _passes, _tokens, _cookies,
          kw, ck, pending, last, _default_login, _cookie_names, jar, req, net,
          held, FLASK_TESTER_TESTING>>
config == <<_allow, _ptype, _has_pass, _has_token>>
stores == <<_passes, _tokens, _cookies>>
request == <<kw, ck, pending>>
client == <<_default_login, _cookie_names, jar, net, FLASK_TESTER_TESTING>>

\* --------------------------------------------------- dictionary primitives
\* d[k] = v
Put(d, k, v) == [x \in DOMAIN d \cup {k} |-> IF x = k THEN v ELSE d[x]]
\* del d[k]
Del(d, k) == [x \in DOMAIN d \ {k} |-> d[x]]
\* d.get(k, dflt)
Get(d, k, dflt) == IF k \in DOMAIN d THEN d[k] ELSE dflt
\* a.update(b)
Update(a, b) == [x \in DOMAIN a \cup DOMAIN b |-> IF x \in DOMAIN b THEN b[x] ELSE a[x]]

\* ------------------------------------------------------------ Authenticator
\* _set, had None been stored as a value instead of deleting the key
_set_StoreNone(key, val, store) == Put(store, key, val)

\* _set, had None emptied the store
_set_ClearAll(key, val, store) ==
  IF val = None THEN NoDict ELSE Put(store, key, val)

\* _set, had None left the entry in place
_set_NoDelete(key, val, store) ==
  IF val = None THEN store ELSE Put(store, key, val)

\* Authenticator._set: None deletes the key, a value overwrites it
_set(key, val, store) ==
  IF val = None
  THEN IF key \in DOMAIN store THEN Del(store, key) ELSE store
  ELSE Put(store, key, val)

\* error classes
AuthError == "AuthError"

\* a call record: every call fills in all fields; had is what a setter found
\* stored under its key
Call(op, login, name, val, had, auth, kwargs, cookies, res, hook) ==
  [op |-> op, login |-> login, name |-> name, val |-> val, had |-> had, auth |-> auth,
   kw_in |-> kwargs, ck_in |-> cookies,
   err |-> res.err, cause |-> res.cause, carrier |-> res.carrier, hook |-> hook]

\* a call that returns, a call that raises
Returned == [err |-> None, cause |-> None, carrier |-> None]
Raised(kind, cause) == [err |-> kind, cause |-> cause, carrier |-> None]

\* NoScheme, had the base error class been raised
NoScheme_BaseError(what) ==
  Raised("FlaskTesterError", "cannot set " \o what \o ", no " \o what \o " scheme allowed")

\* setPass, setToken: "cannot set ..., no ... scheme allowed"
NoScheme(what) ==
  Raised(AuthError, "cannot set " \o what \o ", no " \o what \o " scheme allowed")

\* HasScheme, had the category been taken as allowed whatever the list
HasScheme_Always(allow, schemes) == TRUE

\* HasScheme, had every scheme of the category been required
HasScheme_All(allow, schemes) == \A auth \in schemes : auth \in allow

\* __init__: whether some allowed scheme is one of schemes
HasScheme(allow, schemes) == \E auth \in allow : auth \in schemes

\* the number of passwords, tokens and cookies in the stores
Stored(passes, tokens, cooks) ==
  Cardinality(DOMAIN passes) + Cardinality(DOMAIN tokens)
  + Cardinality(UNION {{l} \X DOMAIN cooks[l] : l \in DOMAIN cooks})

\* no request of the client, no exchange of the network transport yet
NoCall == [op |-> "none"]

\* os.environ: with or without FLASK_TESTER_TESTING
Environ(testing) == FLASK_TESTER_TESTING = testing

\* Client.__init__ and FlaskClient.__init__ around a fresh test client
NewClient(default_login) ==
  /\ _default_login = default_login
  /\ _cookie_names = {}
  /\ jar = NoDict
  /\ req = NoCall
  /\ net = NoCall
  /\ held = [obj |-> NoDict, as |-> None]

\* Authenticator.__init__
Construct(allow, ptype) ==
  /\ _allow = allow
  /\ _ptype = ptype
  /\ _has_pass = HasScheme(allow, _PASS_SCHEMES)
  /\ _has_token = HasScheme(allow, _TOKEN_SCHEMES)
  /\ _auth_hook = None
  /\ _passes = NoDict
  /\ _tokens = NoDict
  /\ _cookies = NoDict
  /\ kw = NoDict
  /\ ck = NoDict
  /\ pending = FALSE
  /\ last = Call("init", None, None, None, None, None, NoDict, NoDict, Returned, <<>>)

Init ==
  \E allow \in AllowLists, ptype \in {"data", "json"} : Construct(allow, ptype) /\ NewClient(None) /\ Environ(FALSE)

\* the bags of a request are the caller's until setAuth has been applied to them
Discard ==
  IF pending THEN UNCHANGED <<request, req>>
  ELSE kw' = NoDict /\ ck' = NoDict /\ req' = NoCall /\ UNCHANGED pending

\* Authenticator.setHook
SetHook(hook) ==
  /\ _auth_hook' = hook
  /\ last' = Call("setHook", None, None, hook, None, None, NoDict, NoDict, Returned, <<>>)
  /\ Discard
  /\ UNCHANGED <<client, held, config, stores>>

\* HookCalls, had the hook been invoked before the password store was updated
HookCalls_BeforeStore(login, pw, passes) ==
  IF _auth_hook # None
  THEN << <<_auth_hook, login, pw, Get(_passes, login, None)>> >>
  ELSE <<>>

\* the hook calls made by setPass: the hook, if any, gets (login, pw) once, and
\* finds in the password store passes what a request it issues for login would use
HookCalls(login, pw, passes) ==
  IF _auth_hook # None
  THEN << <<_auth_hook, login, pw, Get(passes, login, None)>> >>
  ELSE <<>>

\* Authenticator.setPass
SetPass(login, pw) ==
  IF ~_has_pass
  THEN /\ last' = Call("setPass", login, None, pw, Get(_passes, login, None), None,
                       NoDict, NoDict, NoScheme("password"), <<>>)
       /\ Discard
       /\ UNCHANGED <<client, held, config, _auth_hook, stores>>
  ELSE /\ _passes' = _set(login, pw, _passes)
       /\ Stored(_passes', _tokens, _cookies) <= MaxStored
       /\ last' = Call("setPass", login, None, pw, Get(_passes, login, None), None,
                       NoDict, NoDict, Returned, HookCalls(login, pw, _passes'))
       /\ Discard
       /\ UNCHANGED <<client, held, config, _auth_hook, _tokens, _cookies>>

\* Authenticator.setToken
SetToken(login, token) ==
  IF ~_has_token
  THEN /\ last' = Call("setToken", login, None, token, Get(_tokens, login, None), None,
                       NoDict, NoDict, NoScheme("token"), <<>>)
       /\ Discard
       /\ UNCHANGED <<client, held, config, _auth_hook, stores>>
  ELSE /\ _tokens' = _set(login, token, _tokens)
       /\ Stored(_passes, _tokens', _cookies) <= MaxStored
       /\ last' = Call("setToken", login, None, token, Get(_tokens, login, None), None,
                       NoDict, NoDict, Returned, <<>>)
       /\ Discard
       /\ UNCHANGED <<client, held, config, _auth_hook, _passes, _cookies>>

\* Authenticator.setCookie
SetCookie(login, name, val) ==
  /\ _cookies' = Put(_cookies, login, _set(name, val, Get(_cookies, login, NoDict)))
  /\ Stored(_passes, _tokens, _cookies') <= MaxStored
  /\ last' = Call("setCookie", login, name, val,
                  Get(Get(_cookies, login, NoDict), name, None), None,
                  NoDict, NoDict, Returned, <<>>)
  /\ Discard
  /\ UNCHANGED <<client, held, config, _auth_hook, _passes, _tokens>>

\* _param, had the form body been looked for before the JSON body
_param_DataFirst(kwargs, key, val) ==
  IF "data" \in DOMAIN kwargs THEN Put(kwargs, "data", Put(kwargs["data"], key, val))
  ELSE IF "json" \in DOMAIN kwargs THEN Put(kwargs, "json", Put(kwargs["json"], key, val))
       ELSE Put(kwargs, _ptype, [x \in {key} |-> val])

\* Authenticator._param: add a request parameter to json, else data, else a new body
_param(kwargs, key, val) ==
  IF "json" \in DOMAIN kwargs
  THEN Put(kwargs, "json", Put(kwargs["json"], key, val))
  ELSE IF "data" \in DOMAIN kwargs
       THEN Put(kwargs, "data", Put(kwargs["data"], key, val))
       ELSE Put(kwargs, _ptype, [x \in {key} |-> val])

\* _try_auth, had the explicit scheme been ignored
_try_auth_AnyAllowed(auth, scheme) == scheme \in _allow

\* Authenticator._try_auth
_try_auth(auth, scheme) == auth \in {None, scheme} /\ scheme \in _allow

\* CheckAuth, had the allowed list been checked before the known schemes
CheckAuth_AllowFirst(auth) ==
  IF auth = None THEN None
  ELSE IF auth \notin _allow THEN "auth is not allowed"
  ELSE IF auth \notin _AUTH_SCHEMES THEN "unexpected auth"
  ELSE None

\* setAuth, the check of an explicit scheme: the cause of the AuthError, or None
CheckAuth(auth) ==
  IF auth = None THEN None
  ELSE IF auth \notin _AUTH_SCHEMES THEN "unexpected auth"
  ELSE IF auth \notin _allow THEN "auth is not allowed"
  ELSE None

\* AuthRaise, had the headers been put back before raising
AuthRaise_HeadersBack(kwargs, cookies, cause) ==
  [kw |-> Put(kwargs, "headers", Get(kwargs, "headers", NoDict)),
   ck |-> cookies, err |-> AuthError, cause |-> cause, carrier |-> None]

\* setAuth raises: the bags as they are at that point
AuthRaise(kwargs, cookies, cause) ==
  [kw |-> kwargs, ck |-> cookies, err |-> AuthError, cause |-> cause, carrier |-> None]

\* AuthReturn, had the headers been put back whether or not there are any
AuthReturn_AlwaysHeaders(kwargs, headers, cookies, carrier) ==
  [kw |-> Put(kwargs, "headers", headers),
   ck |-> cookies, err |-> None, cause |-> None, carrier |-> carrier]

\* setAuth returns, after "put headers back if needed"
AuthReturn(kwargs, headers, cookies, carrier) ==
  [kw |-> IF headers # NoDict THEN Put(kwargs, "headers", headers) ELSE kwargs,
   ck |-> cookies, err |-> None, cause |-> None, carrier |-> carrier]

\* TokenAuth, had the cookie been tried before the parameter
TokenAuth_CookieBeforeParam(login, kwargs, headers, cookies, auth) ==
  LET token == _tokens[login] IN
  IF _try_auth(auth, "bearer")
  THEN AuthReturn(kwargs, Put(headers, "Authorization", _bearer \o " " \o token), cookies, "bearer")
  ELSE IF _try_auth(auth, "header")
  THEN AuthReturn(kwargs, Put(headers, _header, token), cookies, "header")
  ELSE IF _try_auth(auth, "cookie")
  THEN AuthReturn(kwargs, headers, Put(cookies, _cookie, token), "cookie")
  ELSE IF _try_auth(auth, "tparam")
  THEN AuthReturn(_param(kwargs, _tparam, token), headers, cookies, "tparam")
  ELSE AuthRaise(kwargs, cookies, "no token carrier")

\* setAuth, "use token if available and allowed"
TokenAuth(login, kwargs, headers, cookies, auth) ==
  LET token == _tokens[login] IN
  IF _try_auth(auth, "bearer")
  THEN AuthReturn(kwargs, Put(headers, "Authorization", _bearer \o " " \o token), cookies, "bearer")
  ELSE IF _try_auth(auth, "header")
  THEN AuthReturn(kwargs, Put(headers, _header, token), cookies, "header")
  ELSE IF _try_auth(auth, "tparam")
  THEN AuthReturn(_param(kwargs, _tparam, token), headers, cookies, "tparam")
  ELSE IF _try_auth(auth, "cookie")
  THEN AuthReturn(kwargs, headers, Put(cookies, _cookie, token), "cookie")
  ELSE AuthRaise(kwargs, cookies, "no token carrier")

\* PassAuth, had the basic-auth pair been built as (password, login)
PassAuth_SwappedPair(login, kwargs, headers, cookies, auth) ==
  IF _try_auth(auth, "basic")
  THEN AuthReturn(Put(kwargs, "auth", <<_passes[login], login>>), headers, cookies, "basic")
  ELSE IF _try_auth(auth, "param")
  THEN AuthReturn(_param(_param(kwargs, _user, login), _pass, _passes[login]),
                  headers, cookies, "param")
  ELSE AuthRaise(kwargs, cookies, "no password carrier")

\* setAuth, the password branch
PassAuth(login, kwargs, headers, cookies, auth) ==
  IF _try_auth(auth, "basic")
  THEN AuthReturn(Put(kwargs, "auth", <<login, _passes[login]>>), headers, cookies, "basic")
  ELSE IF _try_auth(auth, "param")
  THEN AuthReturn(_param(_param(kwargs, _user, login), _pass, _passes[login]),
                  headers, cookies, "param")
  ELSE AuthRaise(kwargs, cookies, "no password carrier")

\* MergeCookies, had the stored cookies only been added when the bag is empty
MergeCookies_OnlyIfEmpty(login, cookies) ==
  IF cookies = NoDict THEN Get(_cookies, login, NoDict) ELSE cookies

\* setAuth, the merge of the login's cookies into the cookie bag
MergeCookies(login, cookies) == Update(cookies, Get(_cookies, login, NoDict))

\* UseToken, had the stored password been preferred to the stored token
UseToken_PasswordFirst(login, auth) ==
  /\ login \in DOMAIN _tokens /\ auth \in {None, "bearer", "header", "cookie", "tparam"}
  /\ ~(login \in DOMAIN _passes /\ auth = None)

\* setAuth, whether the token branch is taken
UseToken(login, auth) ==
  login \in DOMAIN _tokens /\ auth \in {None, "bearer", "header", "cookie", "tparam"}

\* UsePass, had the requested scheme been ignored
UsePass_AnyScheme(login, auth) == login \in DOMAIN _passes

\* setAuth, whether the password branch is taken (when the token branch is not)
UsePass(login, auth) ==
  login \in DOMAIN _passes /\ auth \in {None, "basic", "param"}

\* Authenticate, had none been tried before fake
Authenticate_NoneBeforeFake(login, kwargs, cookies, auth) ==
  LET merged == MergeCookies(login, cookies)
      bad == CheckAuth(auth)
      headers == Get(kwargs, "headers", NoDict)
  IN IF bad # None THEN AuthRaise(kwargs, merged, bad)
     ELSE IF UseToken(login, auth) THEN TokenAuth(login, kwargs, headers, merged, auth)
     ELSE IF UsePass(login, auth) THEN PassAuth(login, kwargs, headers, merged, auth)
     ELSE IF _try_auth(auth, "none") THEN AuthReturn(kwargs, headers, merged, "none")
     ELSE IF _try_auth(auth, "fake")
          THEN AuthReturn(_param(kwargs, _login, login), headers, merged, "fake")
          ELSE AuthRaise(kwargs, merged, "no authentication")

\* setAuth for a login that is not None
Authenticate(login, kwargs, cookies, auth) ==
  LET merged == MergeCookies(login, cookies)
      bad == CheckAuth(auth)
      headers == Get(kwargs, "headers", NoDict)
  IN IF bad # None THEN AuthRaise(kwargs, merged, bad)
     ELSE IF UseToken(login, auth) THEN TokenAuth(login, kwargs, headers, merged, auth)
     ELSE IF UsePass(login, auth) THEN PassAuth(login, kwargs, headers, merged, auth)
     ELSE IF _try_auth(auth, "fake")
     THEN AuthReturn(_param(kwargs, _login, login), headers, merged, "fake")
     ELSE IF _try_auth(auth, "none")
     THEN AuthReturn(kwargs, headers, merged, "none")
     ELSE AuthRaise(kwargs, merged, "no authentication")

\* setAuth, without the early return for a login that is None
setAuth_NoEarlyReturn(login, kwargs, cookies, auth) ==
  Authenticate(login, kwargs, cookies, auth)

\* Authenticator.setAuth: the parameter bag and cookie bag after the call, and how it ended
setAuth(login, kwargs, cookies, auth) ==
  IF login = None
  THEN [kw |-> kwargs, ck |-> cookies, err |-> None, cause |-> None, carrier |-> None]
  ELSE Authenticate(login, kwargs, cookies, auth)

\* the caller builds the parameter bag and the cookie bag of a request
NewRequest(r) ==
  /\ kw' = r.kw
  /\ ck' = r.ck
  /\ pending' = TRUE
  /\ last' = Call("request", None, None, None, None, None, r.kw, r.ck, Returned, <<>>)
  /\ UNCHANGED <<client, held, req, config, _auth_hook, stores>>

\* a call of Authenticator.setAuth on the bags, which it changes in place
SetAuth(login, auth) ==
  /\ pending
  /\ LET res == setAuth(login, kw, ck, auth) IN
       /\ kw' = res.kw
       /\ ck' = res.ck
       /\ last' = Call("setAuth", login, None, None, None, auth, kw, ck, res, <<>>)
  /\ pending' = FALSE
  /\ UNCHANGED <<client, held, req, config, _auth_hook, stores>>

Next ==
  \/ \E h \in Hooks : SetHook(h)
  \/ \E l \in Logins, pw \in Passwords \cup {None} : SetPass(l, pw)
  \/ \E l \in Logins, t \in Tokens \cup {None} : SetToken(l, t)
  \/ \E l \in Logins, n \in CookieNames, v \in CookieVals \cup {None} : SetCookie(l, n, v)
  \/ \E r \in Requests : NewRequest(r)
  \/ \E l \in Logins \cup {None}, a \in AuthArgs : SetAuth(l, a)

Spec == Init /\ [][Next]_vars

\* Scheme selection under every allowed list: one login, the default parameter
\* type, and the credentials of that login
InitAllow == \E allow \in SUBSET _AUTH_SCHEMES : Construct(allow, "data") /\ NewClient(None) /\ Environ(FALSE)

NextAllow ==
  \/ \E pw \in Passwords \cup {None} : SetPass("calvin", pw)
  \/ \E t \in Tokens \cup {None} : SetToken("calvin", t)
  \/ \E r \in {q \in Requests : q.ck = NoDict /\ "headers" \notin DOMAIN q.kw} : NewRequest(r)
  \/ \E l \in {"calvin", None}, a \in AuthArgs : SetAuth(l, a)

SpecAllow == InitAllow /\ [][NextAllow]_vars

\* The hook protocol: two hooks registered in turn, with and without a password
\* scheme allowed
Hooks2 == Hooks \cup {"otherHook"}

InitHook ==
  \E allow \in {{"basic", "bearer", "none"}, {"bearer", "none"}} :
    Construct(allow, "data") /\ NewClient(None) /\ Environ(FALSE)

NextHook ==
  \/ \E h \in Hooks2 : SetHook(h)
  \/ \E l \in Logins, pw \in Passwords \cup {None} : SetPass(l, pw)
  \/ \E l \in Logins, t \in Tokens \cup {None} : SetToken(l, t)
  \/ \E l \in Logins, v \in CookieVals \cup {None} : SetCookie(l, "lang", v)

SpecHook == InitHook /\ [][NextHook]_vars

\* ------------------------------------------------------------------ Client
\* Python values of the bodies: None, strings, and pydantic objects
Pydantic == {"<Thing1>"}
model_dump(val) == val \o ".model_dump()"
model_dump_json(val) == val \o ".model_dump_json()"

\* response texts are sequences of characters
Texts == {<<"h", "i">>, <<"n", "o">>}
Responses == [status_code : {"200", "401"}, text : Texts]
\* status and content arguments of request: an absent key is None
Checks ==
  { NoDict, [status |-> "200"], [content |-> <<"i">>],
    [status |-> "200", content |-> <<"i">>] }
\* the length of the response text shown in a failure message
TextShown == 512

\* ResolveLogin, had an explicit None fallen back on the default login
ResolveLogin_NoneIsDefault(kwargs) ==
  IF "login" \in DOMAIN kwargs /\ kwargs["login"] # None
  THEN kwargs["login"] ELSE _default_login

\* request: the login option if there is one, else the default login
ResolveLogin(kwargs) ==
  IF "login" \in DOMAIN kwargs THEN kwargs["login"] ELSE _default_login

\* CookieBag, had the cookies option been left out of the bag
CookieBag_Empty(kwargs) == NoDict

\* request: a new cookie bag, filled from the cookies option
CookieBag(kwargs) ==
  IF "cookies" \in DOMAIN kwargs THEN Update(NoDict, kwargs["cookies"]) ELSE NoDict

\* request: the options without login and cookies
Options(kwargs) ==
  [x \in DOMAIN kwargs \ {"login", "cookies"} |-> kwargs[x]]

\* MergeBodies, had the form body been kept on a shared key
MergeBodies_DataWins(kwargs) ==
  IF "json" \in DOMAIN kwargs /\ "data" \in DOMAIN kwargs
  THEN Del(Put(kwargs, "data", Update(kwargs["json"], kwargs["data"])), "json")
  ELSE kwargs

\* MergeBodies, had the JSON body been left in place after the merge
MergeBodies_KeepJson(kwargs) ==
  IF "json" \in DOMAIN kwargs /\ "data" \in DOMAIN kwargs
  THEN Put(kwargs, "data", Update(kwargs["data"], kwargs["json"]))
  ELSE kwargs

\* request: json and data both given, json is merged into data and removed
MergeBodies(kwargs) ==
  IF "json" \in DOMAIN kwargs /\ "data" \in DOMAIN kwargs
  THEN Del(Put(kwargs, "data", Update(kwargs["data"], kwargs["json"])), "json")
  ELSE kwargs

\* request: conversion of a value of the JSON body
JsonValue(val) ==
  IF val = None THEN val
  ELSE IF val \in Pydantic THEN model_dump(val) ELSE val

\* request: conversion of a value of the form body
DataValue(val) ==
  IF val = None THEN "null"
  ELSE IF val \in Pydantic THEN model_dump_json(val) ELSE val

\* request: conversion of the bodies
Normalise(kwargs) ==
  [x \in DOMAIN kwargs |->
     IF x = "json" THEN [n \in DOMAIN kwargs[x] |-> JsonValue(kwargs[x][n])]
     ELSE IF x = "data" THEN [n \in DOMAIN kwargs[x] |-> DataValue(kwargs[x][n])]
          ELSE kwargs[x]]

\* SetJar, had the cookies of earlier requests not been deleted
SetJar_NoCleanup(cookies) == Update(jar, cookies)

\* FlaskClient._request: every cookie sent so far is deleted from the jar of the
\* test client, then the cookies of the bag are set
SetJar(cookies) == Update([x \in DOMAIN jar \ _cookie_names |-> jar[x]], cookies)

\* re.search of a literal pattern
Search(pattern, text) ==
  \E i \in 1..Len(text) :
    i + Len(pattern) <= Len(text) + 1 /\ SubSeq(text, i, i + Len(pattern) - 1) = pattern

\* text[:512]
Shown(text) == SubSeq(text, 1, IF Len(text) < TextShown THEN Len(text) ELSE TextShown)

\* _pytestFail, had it logged the message and returned
_pytestFail_LogOnly(msg) == Returned

\* _pytestFail: raises _AssertError under FLASK_TESTER_TESTING, else pytest.fail
\* raises pytest's Failed
_pytestFail(msg) ==
  Raised(IF FLASK_TESTER_TESTING THEN "_AssertError" ELSE "Failed", msg)

\* CheckResponse, had the content been checked before the status
CheckResponse_ContentFirst(args, res) ==
  IF "content" \in DOMAIN args /\ ~Search(args["content"], res.text)
  THEN _pytestFail(<<"cannot find ", args["content"], " in ", Shown(res.text), "...">>)
  ELSE IF "status" \in DOMAIN args /\ res.status_code # args["status"]
       THEN _pytestFail(<<"bad ", args["status"], " result: ", res.status_code, " ",
                          Shown(res.text), "...">>)
       ELSE Returned

\* request: the status check, then the content check
CheckResponse(args, res) ==
  IF "status" \in DOMAIN args /\ res.status_code # args["status"]
  THEN _pytestFail(<<"bad ", args["status"], " result: ", res.status_code, " ",
                     Shown(res.text), "...">>)
  ELSE IF "content" \in DOMAIN args /\ ~Search(args["content"], res.text)
       THEN _pytestFail(<<"cannot find ", args["content"], " in ", Shown(res.text),
                          "...">>)
       ELSE Returned

\* the caller builds the keyword arguments of a request, from new mappings
NewCall(o) ==
  /\ kw' = o /\ ck' = NoDict /\ pending' = TRUE
  /\ req' = NoCall
  /\ last' = Call("call", None, None, None, None, None, o, NoDict, Returned, <<>>)
  /\ held' = [held EXCEPT !.as = None]
  /\ UNCHANGED <<client, config, _auth_hook, stores>>

\* the caller builds the keyword arguments of a request around the mapping object
\* it keeps, given as the option role (headers, json or data), with the options l
NewCallHeld(role, l) ==
  /\ \E o \in {Update([x \in {role} |-> held.obj], l)} :
       /\ kw' = o
       /\ last' = Call("call", None, None, None, None, None, o, NoDict, Returned, <<>>)
  /\ ck' = NoDict /\ pending' = TRUE
  /\ req' = NoCall
  /\ held' = [held EXCEPT !.as = role]
  /\ UNCHANGED <<client, config, _auth_hook, stores>>

\* request and setAuth write into the mappings of the options themselves: the
\* mapping object the caller keeps holds afterwards what the call made of it
InPlace(kwargs) ==
  IF held.as \in DOMAIN kwargs THEN [held EXCEPT !.obj = kwargs[held.as]] ELSE held

\* Delivered, had the transport been invoked whatever setAuth did
Delivered_Always(a) == TRUE

\* request: _request is called once, on the line after setAuth, which is reached
\* only when setAuth returned
Delivered(a) == a.err = None

\* Client.request on a FlaskClient: args holds status and content, res is the
\* response of the application
Request(auth, args, res) ==
  /\ pending
  /\ LET login == ResolveLogin(kw)
         cookies == CookieBag(kw)
         kwargs == Normalise(MergeBodies(Options(kw)))
     IN \E a \in {setAuth(login, kwargs, cookies, auth)} :
        \E out \in {IF a.err # None THEN Raised(a.err, a.cause)
                    ELSE CheckResponse(args, res)} :
          /\ kw' = a.kw /\ ck' = a.ck
          /\ held' = InPlace(a.kw)
          /\ last' = Call("setAuth", login, None, None, None, auth, kwargs, cookies, a, <<>>)
          /\ IF ~Delivered(a)
             THEN UNCHANGED <<_cookie_names, jar>>
             ELSE /\ jar' = SetJar(a.ck)
                  /\ _cookie_names' = _cookie_names \cup DOMAIN a.ck
          /\ req' = [op |-> "request", opts |-> kw, auth |-> auth, args |-> args,
                     login |-> login, sent |-> Delivered(a),
                     transport |-> IF Delivered(a)
                                   THEN << [kwargs |-> a.kw, cookies |-> a.ck] >>
                                   ELSE <<>>,
                     jar |-> IF Delivered(a) THEN SetJar(a.ck) ELSE NoDict,
                     res |-> IF Delivered(a) THEN res ELSE NoDict,
                     err |-> out.err, cause |-> out.cause,
                     returned |-> out.err = None]
  /\ pending' = FALSE
  /\ UNCHANGED <<_default_login, net, FLASK_TESTER_TESTING, config, _auth_hook, stores>>

\* requests that vary the login option, the bodies and the checks
ClientOptions ==
  { Update(o, l) :
      o \in { NoDict,
              [json |-> [j |-> "1", k |-> None], data |-> [i |-> "2", k |-> "3"]],
              [json |-> [t |-> "<Thing1>", n |-> None]],
              [data |-> [t |-> "<Thing1>", n |-> None]] },
      l \in {NoDict} \cup {[login |-> x] : x \in Logins \cup {None}} }

InitClient ==
  \E d \in {None, "calvin"}, testing \in BOOLEAN :
    Construct({"bearer", "basic", "param", "none"}, "data") /\ NewClient(d) /\ Environ(testing)

NextClient ==
  \/ \E pw \in Passwords \cup {None} : SetPass("calvin", pw)
  \/ \E t \in Tokens \cup {None} : SetToken("hobbes", t)
  \/ \E v \in CookieVals \cup {None} : SetCookie("calvin", "lang", v)
  \/ \E o \in ClientOptions : NewCall(o)
  \/ \E auth \in {None, "param", "foobla"}, args \in Checks, res \in Responses :
        Request(auth, args, res)

SpecClient == InitClient /\ [][NextClient]_vars

\* The bodies of a request under every scheme: all schemes allowed, both default
\* parameter types, the credentials of one login
InitBody ==
  \E ptype \in {"data", "json"} :
    Construct(_AUTH_SCHEMES, ptype) /\ NewClient(None) /\ Environ(TRUE)

NextBody ==
  \/ \E pw \in Passwords \cup {None} : SetPass("calvin", pw)
  \/ \E t \in Tokens \cup {None} : SetToken("calvin", t)
  \/ \E o \in ClientOptions : NewCall(o)
  \/ \E auth \in {None} \cup _AUTH_SCHEMES :
        Request(auth, NoDict, [status_code |-> "200", text |-> <<"h", "i">>])

SpecBody == InitBody /\ [][NextBody]_vars

\* Calls that are given again a mapping object the caller keeps: one token, one
\* password, carriers in the headers and in the bodies
InitAlias ==
  \E ptype \in {"data", "json"} :
    Construct({"bearer", "tparam", "param", "none"}, ptype)
    /\ NewClient(None) /\ Environ(TRUE)

NextAlias ==
  \/ \E t \in Tokens \cup {None} : SetToken("calvin", t)
  \/ \E pw \in Passwords \cup {None} : SetPass("hobbes", pw)
  \/ \E l \in {NoDict} \cup {[login |-> x] : x \in Logins \cup {None}} : NewCall(l)
  \/ \E role \in {"headers", "json", "data"},
        l \in {NoDict} \cup {[login |-> x] : x \in Logins \cup {None}} :
        NewCallHeld(role, l)
  \/ \E auth \in {None, "tparam", "none"} :
        Request(auth, NoDict, [status_code |-> "200", text |-> <<"h", "i">>])

SpecAlias == InitAlias /\ [][NextAlias]_vars

\* requests that vary the login option and the cookies option
JarOptions ==
  { Update(o, l) :
      o \in {NoDict, [cookies |-> [sid |-> "x"]],
              [cookies |-> [lang |-> "it", auth |-> "mine"]]},
      l \in {NoDict} \cup {[login |-> x] : x \in Logins \cup {None}} }

InitJar ==
  \E d \in {None, "hobbes"} :
    Construct({"cookie", "fake", "none"}, "data") /\ NewClient(d) /\ Environ(TRUE)

NextJar ==
  \/ \E t \in Tokens \cup {None} : SetToken("calvin", t)
  \/ \E l \in Logins, n \in CookieNames, v \in CookieVals \cup {None} : SetCookie(l, n, v)
  \/ \E o \in JarOptions : NewCall(o)
  \/ \E auth \in {None, "none"}, res \in {[status_code |-> "200", text |-> <<"h", "i">>]} :
        Request(auth, NoDict, res)

SpecJar == InitJar /\ [][NextJar]_vars

\* ----------------------------------------------------------- RequestClient
\* Python values of a form body given to the transport, tagged with their type:
\* a string, a file handle, a tuple
Str(s) == <<"str", s>>
IOBase(h) == <<"io", h>>
IsIOBase(whatever) == whatever[1] = "io"
IsTuple(whatever) == whatever[1] = "tuple"

\* FileEntry, had the tuple been passed as it is
FileEntry_NoReorder(whatever) == whatever

\* _request: the entry of files for a file handle, or for a tuple
\* (file_handle, file_name, file_type), reordered to (file_name, file_handle, file_type)
FileEntry(whatever) ==
  IF IsIOBase(whatever) THEN whatever
  ELSE <<"tuple", whatever[3], whatever[2], whatever[4]>>

\* _request: the names of data that hold a file
FileNames(data) == {name \in DOMAIN data : IsIOBase(data[name]) \/ IsTuple(data[name])}

\* _request: "data" to "files" transfer; a tuple that does not have three members
\* cannot be unpacked
Transfer(kwargs) ==
  IF "data" \notin DOMAIN kwargs THEN [kw |-> kwargs, err |-> None]
  ELSE LET data == kwargs["data"]
           files == [name \in FileNames(data) |-> FileEntry(data[name])]
           left == [name \in DOMAIN data \ FileNames(data) |-> data[name]]
       IN IF \E name \in DOMAIN data : IsTuple(data[name]) /\ Len(data[name]) # 4
          THEN [kw |-> kwargs, err |-> "ValueError"]
          ELSE IF "files" \in DOMAIN kwargs
               THEN [kw |-> Put(kwargs, "data", left), err |-> "AssertionError"]
               ELSE IF files # NoDict /\ "json" \in DOMAIN kwargs
                    THEN [kw |-> Put(Put(kwargs, "data", left), "files", files),
                          err |-> "AssertionError"]
                    ELSE [kw |-> Put(Put(kwargs, "data", left), "files", files),
                          err |-> None]

\* RequestFlaskResponse, had a failed decoding left the text as json
RequestFlaskResponse_TextAsJson(response) ==
  [status_code |-> response.status_code, data |-> response.content,
   text |-> response.text, headers |-> response.headers, cookies |-> response.cookies,
   json |-> IF "returns" \in DOMAIN response.json THEN response.json["returns"]
            ELSE response.text,
   is_json |-> "returns" \in DOMAIN response.json]

\* RequestFlaskResponse.__init__: response.json is what json() does, it returns a
\* value or raises an exception
RequestFlaskResponse(response) ==
  [status_code |-> response.status_code, data |-> response.content,
   text |-> response.text, headers |-> response.headers, cookies |-> response.cookies,
   json |-> IF "returns" \in DOMAIN response.json THEN response.json["returns"] ELSE None,
   is_json |-> "returns" \in DOMAIN response.json]

\* RequestClient._request: res is the response of the server
NetRequest(kwargs, cookies, res) ==
  /\ \E t \in {Transfer(kwargs)} :
       net' = [op |-> "_request", kwargs_in |-> kwargs, cookies |-> cookies,
               sent |-> t.err = None, kwargs |-> t.kw, err |-> t.err,
               raw |-> IF t.err = None THEN res ELSE NoDict,
               res |-> IF t.err = None THEN RequestFlaskResponse(res) ELSE NoDict]
  /\ UNCHANGED <<_default_login, _cookie_names, jar, FLASK_TESTER_TESTING, req, last, held,
                 request, config, _auth_hook, stores>>

\* form values: a string, a file handle, a triple, and a pair
FormValues ==
  { Str("world!"), IOBase("hello"), <<"tuple", "hello", "hello.txt", "text/plain">>,
    <<"tuple", "hello", "hello.txt">> }
\* parameters of a transport call: a form body or none, with or without a JSON
\* body, with or without the files option
NetKwargs ==
  { Update(Update(d, j), f) :
      d \in {NoDict} \cup
            {[data |-> b] : b \in UNION {[S -> FormValues] : S \in SUBSET {"hello", "k"}}},
      j \in {NoDict, [json |-> [j |-> Str("1")]]},
      f \in {NoDict, [files |-> [up |-> IOBase("other")]]} }
\* responses of the server: json() returns a value (a dictionary, None for the
\* body null) or raises
RawResponses ==
  [status_code : {"200", "501"}, content : {"b'hello world!'"}, text : {"hello world!"},
   headers : {[Server |-> "test/0.1"]}, cookies : {NoDict},
   json : {[returns |-> "{'hello': 'world!'}"], [returns |-> None],
           [raises |-> "Exception"], [raises |-> "JSONDecodeError"]}]

InitNet ==
  Construct({"bearer", "basic", "param", "none"}, "data") /\ NewClient(None) /\ Environ(TRUE)

NextNet ==
  \E kwargs \in NetKwargs, cookies \in {NoDict, [lang |-> "en"]}, res \in RawResponses :
    NetRequest(kwargs, cookies, res)

SpecNet == InitNet /\ [][NextNet]_vars

\* ------------------------------------------------------------------ claims
\* the state right after a call of setAuth
IsSetAuth == last.op = "setAuth"
\* ... for a login that is not None
IsAuthOf == IsSetAuth /\ last.login # None
\* the request bodies present in a parameter bag
Bodies(kwargs) == {"json", "data"} \cap DOMAIN kwargs
\* a request carries the token in one of the four token carriers
CarriesToken(kwargs, cks, token) ==
  \/ /\ "headers" \in DOMAIN kwargs
     /\ \/ Get(kwargs["headers"], "Authorization", None) = "Bearer " \o token
        \/ Get(kwargs["headers"], _header, None) = token
  \/ \E b \in Bodies(kwargs) : Get(kwargs[b], _tparam, None) = token
  \/ Get(cks, _cookie, None) = token
\* a request carries no password: no basic-auth pair, no user or password parameter
NoPassword(kwargs) ==
  /\ "auth" \notin DOMAIN kwargs
  /\ \A b \in Bodies(kwargs) : _user \notin DOMAIN kwargs[b] /\ _pass \notin DOMAIN kwargs[b]

\* C1: after setAuth with no explicit scheme for a login that has a stored token,
\* a token carrier was applied and the token is in the request, and the request
\* carries no basic-auth pair and no user/password parameter, also when the login
\* has a stored password and password schemes are allowed.
C1_TokenFirst ==
  (IsAuthOf /\ last.auth = None /\ last.login \in DOMAIN _tokens) =>
    /\ last.err = None
    /\ last.carrier \in _TOKEN_SCHEMES
    /\ CarriesToken(kw, ck, _tokens[last.login])
    /\ NoPassword(kw)

C1_Witness ==
  /\ IsAuthOf /\ last.auth = None
  /\ last.login \in DOMAIN _tokens /\ last.login \in DOMAIN _passes
  /\ "basic" \in _allow /\ "param" \in _allow
  /\ last.carrier \in _TOKEN_SCHEMES

\* whether the login of the last call has the credential an explicit scheme carries
HasCredential(login, auth) ==
  /\ auth \in _TOKEN_SCHEMES => login \in DOMAIN _tokens
  /\ auth \in _PASS_SCHEMES => login \in DOMAIN _passes

\* C2 (amended): for a login that is not None and an explicit scheme s, setAuth
\* fails with AuthError if s is not allowed, whatever is stored; when s is allowed
\* it fails exactly when s is a token scheme and the login has no stored token, or
\* s is a password scheme and the login has no stored password.
C2_FailsIffNotAllowedOrNoCredential ==
  (IsAuthOf /\ last.auth # None) =>
    /\ last.err \in {None, "AuthError"}
    /\ (last.err = "AuthError") <=>
         (last.auth \notin _allow \/ ~HasCredential(last.login, last.auth))

C2_Witness ==
  /\ IsAuthOf /\ last.auth \in _allow /\ last.auth \in _TOKEN_SCHEMES
  /\ last.login \notin DOMAIN _tokens /\ last.login \in DOMAIN _passes
  /\ last.err = "AuthError"

\* C2 as stated: for a login that is not None, setAuth with an explicit scheme s
\* fails with AuthError if and only if s is not in the allowed set.
C2_FailsIffNotAllowed ==
  (IsAuthOf /\ last.auth # None) =>
    ((last.err = "AuthError") <=> (last.auth \notin _allow))

\* C3: for a login that is not None, an explicit scheme that is none of the eight
\* schemes is rejected with cause "unexpected auth" (the check made first: such a
\* scheme is not allowed either), a known scheme that is not allowed with cause
\* "auth is not allowed", whatever credentials the login has.
C3_RejectionCauses ==
  (IsAuthOf /\ last.auth # None) =>
    /\ last.auth \notin _AUTH_SCHEMES =>
         last.err = "AuthError" /\ last.cause = "unexpected auth"
    /\ (last.auth \in _AUTH_SCHEMES /\ last.auth \notin _allow) =>
         last.err = "AuthError" /\ last.cause = "auth is not allowed"
    /\ "unexpected auth" # "auth is not allowed"

C3_Witness ==
  /\ IsAuthOf /\ last.auth \notin _AUTH_SCHEMES /\ last.auth # None
  /\ last.login \in DOMAIN _tokens
  /\ last.cause = "unexpected auth"

\* C4: when the login is None, setAuth leaves the parameter bag and the cookie bag
\* as passed and raises nothing, whatever the stores and the scheme argument.
C4_AbsentLoginNoEffect ==
  (IsSetAuth /\ last.login = None) =>
    kw = last.kw_in /\ ck = last.ck_in /\ last.err = None

C4_Witness ==
  /\ IsSetAuth /\ last.login = None /\ last.auth \notin _AUTH_SCHEMES /\ last.auth # None
  /\ _cookies # NoDict /\ _tokens # NoDict
  /\ kw # NoDict /\ kw = last.kw_in

\* the cookies stored for a login
StoredCookies(login) == Get(_cookies, login, NoDict)
\* every cookie of the bag after setAuth was passed by the caller, is stored for
\* the login, or is the token cookie of the cookie scheme
CookiesExplained ==
  \A n \in DOMAIN ck :
    \/ n \in DOMAIN last.ck_in /\ ck[n] = last.ck_in[n]
    \/ n \in DOMAIN StoredCookies(last.login) /\ ck[n] = StoredCookies(last.login)[n]
    \/ last.carrier = "cookie" /\ n = _cookie /\ ck[n] = _tokens[last.login]

\* C5 (amended): after a successful setAuth for a login that is not None, under
\* every scheme, each cookie stored for the login is in the cookie bag with its
\* stored value, except that under the cookie scheme the cookie named as the token
\* cookie holds the token; no cookie stored for another login is added.
C5_CookiesMergedButTokenCookie ==
  (IsAuthOf /\ last.err = None) =>
    /\ \A n \in DOMAIN StoredCookies(last.login) :
         /\ n \in DOMAIN ck
         /\ \/ ck[n] = StoredCookies(last.login)[n]
            \/ last.carrier = "cookie" /\ n = _cookie /\ ck[n] = _tokens[last.login]
    /\ CookiesExplained

C5_Witness ==
  /\ IsAuthOf /\ last.err = None /\ last.carrier = "cookie"
  /\ "lang" \in DOMAIN StoredCookies(last.login)
  /\ ck["lang"] = StoredCookies(last.login)["lang"]
  /\ ck[_cookie] = _tokens[last.login]

\* C5 as stated: after a successful setAuth for a login that is not None, all the
\* cookies stored for the login are in the cookie bag with their stored values,
\* and no cookie stored for another login is added.
C5_AllStoredCookiesPresent ==
  (IsAuthOf /\ last.err = None) =>
    /\ \A n \in DOMAIN StoredCookies(last.login) :
         n \in DOMAIN ck /\ ck[n] = StoredCookies(last.login)[n]
    /\ CookiesExplained

\* the step is a call of one of the setters
IsSetter(call) == call.op \in {"setPass", "setToken", "setCookie"}
NoTokenScheme == _allow \cap {"bearer", "header", "cookie", "tparam"} = {}
NoPassScheme == _allow \cap {"basic", "param"} = {}

\* C6: setToken is rejected exactly when no token scheme is allowed, setPass exactly
\* when no password scheme is allowed, setCookie never; a rejected call leaves the
\* three stores unchanged and does not invoke the hook.
C6_SetterRejection ==
  [][ /\ last'.op = "setToken" => ((last'.err # None) <=> NoTokenScheme)
      /\ last'.op = "setPass" => ((last'.err # None) <=> NoPassScheme)
      /\ last'.op = "setCookie" => last'.err = None
      /\ (IsSetter(last') /\ last'.err # None) =>
           /\ UNCHANGED <<_passes, _tokens, _cookies>>
           /\ last'.hook = <<>>
    ]_vars

C6_Witness ==
  /\ last.op = "setToken" /\ last.err # None
  /\ _auth_hook # None /\ _passes # NoDict

\* C7 (amended): the error of a setPass or setToken rejected for lack of a scheme
\* of its category is an AuthError, the kind of error setAuth raises; the code has
\* no other kind of error for it.
C7_SetterErrorIsAuthError ==
  /\ (IsSetter(last) /\ last.err # None) => last.err = "AuthError"
  /\ (IsSetAuth /\ last.err # None) => last.err = "AuthError"

C7_Witness == last.op = "setPass" /\ last.err = "AuthError" /\ NoPassScheme

\* C7 as stated: the error of a rejected setPass or setToken is a
\* ConfigurationError, a kind distinct from the AuthError of setAuth.
C7_SetterErrorIsConfigurationError ==
  (IsSetter(last) /\ last.err # None) =>
    last.err = "ConfigurationError" /\ last.err # "AuthError"

\* what setAuth with no explicit scheme does for a login without token
FallThrough(login) ==
  IF login \in DOMAIN _passes /\ "basic" \in _allow THEN "basic"
  ELSE IF login \in DOMAIN _passes /\ "param" \in _allow THEN "param"
  ELSE IF login \in DOMAIN _passes THEN None
  ELSE IF "fake" \in _allow THEN "fake"
  ELSE IF "none" \in _allow THEN "none"
  ELSE None

\* setAuth for a login without token: no token carrier, no token in the request
\* beyond what the caller passed, and with no explicit scheme the password, fake
\* or none carrier, or an AuthError
NoTokenFallThrough ==
  (IsAuthOf /\ last.login \notin DOMAIN _tokens) =>
    /\ last.carrier \notin _TOKEN_SCHEMES
    /\ "Authorization" \notin DOMAIN Get(kw, "headers", NoDict)
    /\ \A b \in Bodies(kw) : _tparam \notin DOMAIN kw[b]
    /\ last.auth = None =>
         /\ last.carrier = FallThrough(last.login)
         /\ (last.err = "AuthError") <=> (FallThrough(last.login) = None)

\* a step that sets a token, and the step that sets it to None right after
SetsThenClears ==
  /\ last.op = "setToken" /\ last.err = None /\ last.val # None
  /\ last'.op = "setToken" /\ last'.login = last.login /\ last'.val = None

\* setToken(login, X) only changes the token of login; setToken(login, None) right
\* after it leaves the stores as if the token had never been set
TokenSetThenCleared ==
  /\ (last'.op = "setToken" /\ last'.err = None) =>
       /\ Del(_tokens', last'.login) = Del(_tokens, last'.login)
       /\ UNCHANGED <<_passes, _cookies>>
  /\ SetsThenClears =>
       /\ last'.err = None
       /\ _tokens' = Del(_tokens, last.login)
       /\ last.login \notin DOMAIN _tokens'

\* setting an absent password or token to None changes nothing
ClearingAbsentChangesNothing ==
  /\ (last'.op = "setToken" /\ last'.val = None /\ last'.login \notin DOMAIN _tokens)
       => UNCHANGED <<_passes, _tokens, _cookies>>
  /\ (last'.op = "setPass" /\ last'.val = None /\ last'.login \notin DOMAIN _passes)
       => UNCHANGED <<_passes, _tokens, _cookies>>

\* C8 (amended): setToken(login, X) then setToken(login, None) leaves the stores as
\* if the token had never been set, and every setAuth for a login without token
\* gives the password, fake, none or AuthError result; setting an absent password
\* or token to None changes nothing, and succeeds whenever a scheme of its
\* category is allowed.
C8_ClearedTokenIsNoToken ==
  [][ /\ TokenSetThenCleared
      /\ NoTokenFallThrough'
      /\ ClearingAbsentChangesNothing
      /\ (last'.op = "setToken" /\ last'.val = None /\ last'.login \notin DOMAIN _tokens
          /\ ~NoTokenScheme) => last'.err = None
      /\ (last'.op = "setPass" /\ last'.val = None /\ last'.login \notin DOMAIN _passes
          /\ ~NoPassScheme) => last'.err = None
    ]_vars

C8_Witness ==
  /\ last.op = "setToken" /\ last.val = None /\ last.had # None /\ last.err = None
  /\ last.login \notin DOMAIN _tokens /\ last.login \in DOMAIN _passes

\* C8 as stated: as above, but setting an absent password or token to None
\* succeeds in every case.
C8_ClearingAbsentAlwaysSucceeds ==
  [][ /\ TokenSetThenCleared
      /\ NoTokenFallThrough'
      /\ ClearingAbsentChangesNothing
      /\ (last'.op = "setToken" /\ last'.val = None /\ last'.login \notin DOMAIN _tokens)
           => last'.err = None
      /\ (last'.op = "setPass" /\ last'.val = None /\ last'.login \notin DOMAIN _passes)
           => last'.err = None
    ]_vars

\* the body of a request that has one: the JSON body, else the form body
Body(kwargs) == IF "json" \in DOMAIN kwargs THEN kwargs["json"] ELSE kwargs["data"]

\* C9: for an explicit allowed scheme whose credential is stored for the login,
\* setAuth succeeds and the credential is at the carrier of that scheme: bearer in
\* header Authorization as "Bearer <token>", header in header Auth, cookie in
\* cookie auth, tparam in body parameter AUTH, basic as the pair (login,
\* password), param as body parameters USER and PASS.
C9_CredentialAtCarrier ==
  (IsAuthOf /\ last.auth \in _allow \cap (_TOKEN_SCHEMES \cup _PASS_SCHEMES)
   /\ HasCredential(last.login, last.auth)) =>
    /\ last.err = None /\ last.carrier = last.auth
    /\ last.auth = "bearer" =>
         kw["headers"]["Authorization"] = "Bearer " \o _tokens[last.login]
    /\ last.auth = "header" => kw["headers"]["Auth"] = _tokens[last.login]
    /\ last.auth = "cookie" => ck["auth"] = _tokens[last.login]
    /\ last.auth = "tparam" =>
         Bodies(kw) # {} /\ Body(kw)["AUTH"] = _tokens[last.login]
    /\ last.auth = "basic" => kw["auth"] = <<last.login, _passes[last.login]>>
    /\ last.auth = "param" =>
         /\ Bodies(kw) # {}
         /\ Body(kw)["USER"] = last.login
         /\ Body(kw)["PASS"] = _passes[last.login]

C9_Witness ==
  /\ IsAuthOf /\ last.auth = "basic" /\ last.err = None
  /\ last.login \in DOMAIN _tokens
  /\ kw["auth"] = <<last.login, _passes[last.login]>>

\* the first scheme of a priority order that is allowed, or None
FirstAllowed(order) ==
  IF \E i \in DOMAIN order : order[i] \in _allow
  THEN order[CHOOSE i \in DOMAIN order :
               order[i] \in _allow /\ \A j \in 1..(i - 1) : order[j] \notin _allow]
  ELSE None

\* C10: with no explicit scheme the carrier is the first allowed scheme in the
\* order bearer, header, tparam, cookie for a login with a stored token, and in
\* the order basic, param for a login with a stored password and no token; with
\* the default allowed list and only a password stored the request gets the pair
\* (login, password) and no user/password body parameter.
C10_CarrierPriority ==
  (IsAuthOf /\ last.auth = None) =>
    /\ last.login \in DOMAIN _tokens =>
         /\ last.err = None
         /\ last.carrier = FirstAllowed(<<"bearer", "header", "tparam", "cookie">>)
    /\ (last.login \in DOMAIN _passes /\ last.login \notin DOMAIN _tokens) =>
         /\ last.err = None
         /\ last.carrier = FirstAllowed(<<"basic", "param">>)
         /\ _allow = {"bearer", "basic", "param", "none"} =>
              /\ kw["auth"] = <<last.login, _passes[last.login]>>
              /\ \A b \in Bodies(kw) : "USER" \notin DOMAIN kw[b] /\ "PASS" \notin DOMAIN kw[b]

C10_Witness ==
  /\ IsAuthOf /\ last.auth = None /\ last.login \in DOMAIN _tokens
  /\ _allow \cap _TOKEN_SCHEMES = {"tparam", "cookie"}
  /\ last.carrier = "tparam"

\* the body parameters a scheme injects for a login: none for a scheme that
\* does not use the body
Injected(login, carrier) ==
  IF carrier = "tparam" THEN [x \in {_tparam} |-> _tokens[login]]
  ELSE IF carrier = "param"
       THEN [x \in {_user, _pass} |-> IF x = _user THEN login ELSE _passes[login]]
       ELSE IF carrier = "fake" THEN [x \in {_login} |-> login]
            ELSE NoDict
\* setAuth succeeded with a scheme that injects body parameters
InjectsBody == IsAuthOf /\ last.err = None /\ last.carrier \in {"tparam", "param", "fake"}
\* the placement when the bag came with a body: into the JSON body if there is
\* one, leaving any form body as it was, else into the form body
PlacedInGivenBody ==
  LET inj == Injected(last.login, last.carrier) IN
  /\ DOMAIN kw = DOMAIN last.kw_in
  /\ "json" \in DOMAIN last.kw_in =>
       /\ kw["json"] = Update(last.kw_in["json"], inj)
       /\ "data" \in DOMAIN kw => kw["data"] = last.kw_in["data"]
  /\ "json" \notin DOMAIN last.kw_in => kw["data"] = Update(last.kw_in["data"], inj)

\* C11: a scheme that injects body parameters (tparam, param, fake) adds them to
\* the JSON body if the bag has one, and no form body is created; else to the
\* form body if there is one; else it creates a body holding exactly the
\* injected parameters, and that body is of the configured default parameter
\* type: a form body for "data", a JSON body for "json".
C11_BodyPlacement ==
  InjectsBody =>
    IF Bodies(last.kw_in) # {} THEN PlacedInGivenBody
    ELSE /\ Bodies(kw) = {_ptype}
         /\ kw[_ptype] = Injected(last.login, last.carrier)

C11_Witness ==
  /\ InjectsBody /\ last.carrier = "tparam"
  /\ Bodies(last.kw_in) = {} /\ _ptype = "json"
  /\ kw["json"] = [x \in {"AUTH"} |-> _tokens[last.login]]

\* C11 as stated: without a body in the bag, a form body is created whatever the
\* default parameter type
C11_FormBodyCreated ==
  InjectsBody =>
    IF Bodies(last.kw_in) # {} THEN PlacedInGivenBody
    ELSE /\ Bodies(kw) = {"data"}
         /\ kw["data"] = Injected(last.login, last.carrier)

\* every value found in the parameter bag (header values, body values, the
\* members of the basic-auth pair) and in the cookie bag
Leaves(kwargs, cks) ==
  UNION {{kwargs[k][x] : x \in DOMAIN kwargs[k]} : k \in DOMAIN kwargs}
  \cup {cks[c] : c \in DOMAIN cks}
\* the forms under which the credentials of a login travel
Secrets(login) ==
  {_tokens[login], _bearer \o " " \o _tokens[login], _passes[login]}
\* the body that receives an injected parameter
TargetBody(kwargs) ==
  IF "json" \in DOMAIN kwargs THEN "json"
  ELSE IF "data" \in DOMAIN kwargs THEN "data" ELSE _ptype

\* C12: setAuth with the explicit allowed scheme none succeeds and leaves the
\* request parameters as they were; with the explicit allowed scheme fake it
\* succeeds and only adds the login under the login parameter LOGIN; for a login
\* that has both a token and a password stored, neither of them is anywhere in
\* the request parameters or in the cookie bag afterwards.
C12_NoneAndFakeLeakNothing ==
  (IsAuthOf /\ last.auth \in {"none", "fake"} /\ last.auth \in _allow) =>
    /\ last.err = None /\ last.carrier = last.auth
    /\ last.auth = "none" => kw = last.kw_in
    /\ last.auth = "fake" =>
         LET b == TargetBody(last.kw_in) IN
         kw = Put(last.kw_in, b, Put(Get(last.kw_in, b, NoDict), "LOGIN", last.login))
    /\ (last.login \in DOMAIN _tokens /\ last.login \in DOMAIN _passes) =>
         Secrets(last.login) \cap Leaves(kw, ck) = {}

C12_Witness ==
  /\ IsAuthOf /\ last.auth = "fake" /\ last.err = None
  /\ last.login \in DOMAIN _tokens /\ last.login \in DOMAIN _passes
  /\ _allow \cap _TOKEN_SCHEMES # {} /\ _allow \cap _PASS_SCHEMES # {}
  /\ kw["json"]["LOGIN"] = last.login

\* C13: with no explicit scheme setAuth tries the token, then the password, then
\* fake, then none: a stored token gives a token carrier; else a stored password
\* gives a password carrier; a login with neither gets fake if fake is allowed
\* (only the login parameter is added), else none if none is allowed (the
\* parameters stay as they were, only the stored cookies are merged), else the
\* call fails with AuthError, "no authentication".
C13_DefaultFallbackChain ==
  (IsAuthOf /\ last.auth = None) =>
    /\ last.login \in DOMAIN _tokens => last.carrier \in _TOKEN_SCHEMES
    /\ (last.login \notin DOMAIN _tokens /\ last.login \in DOMAIN _passes) =>
         last.carrier \in _PASS_SCHEMES
    /\ (last.login \notin DOMAIN _tokens /\ last.login \notin DOMAIN _passes) =>
         /\ ck = Update(last.ck_in, StoredCookies(last.login))
         /\ IF "fake" \in _allow
            THEN /\ last.err = None /\ last.carrier = "fake"
                 /\ LET b == TargetBody(last.kw_in) IN
                    kw = Put(last.kw_in, b,
                             Put(Get(last.kw_in, b, NoDict), "LOGIN", last.login))
            ELSE IF "none" \in _allow
                 THEN last.err = None /\ last.carrier = "none" /\ kw = last.kw_in
                 ELSE /\ last.err = "AuthError" /\ last.cause = "no authentication"
                      /\ kw = last.kw_in

C13_Witness ==
  /\ IsAuthOf /\ last.auth = None
  /\ last.login \notin DOMAIN _tokens /\ last.login \notin DOMAIN _passes
  /\ {"fake", "none", "basic", "bearer"} \subseteq _allow
  /\ last.carrier = "fake" /\ kw["data"]["LOGIN"] = last.login

\* the state right after a call of Client.request
IsRequest == req.op = "request"
\* ... that reached the transport and got a response
Sent == IsRequest /\ req.sent
\* the expected status was given and differs from the status of the response
StatusBad == "status" \in DOMAIN req.args /\ req.res.status_code # req.args["status"]
\* the expected content was given and is not found in the text of the response
ContentBad == "content" \in DOMAIN req.args /\ ~Search(req.args["content"], req.res.text)
\* the request ended with a reported check failure
CheckFailed == req.err \in {"_AssertError", "Failed"}

\* C14: a request that got a response reports a failure exactly when the
\* expected status is given and differs, or the expected content is given and
\* is not found; without status and content nothing is checked; the status is
\* checked first: when it differs the failure is the status failure and its
\* message holds the expected and the actual status, also when the content is
\* not found either; a content failure's message holds the pattern.
C14_ChecksReported ==
  Sent =>
    /\ CheckFailed <=> (StatusBad \/ ContentBad)
    /\ req.args = NoDict => req.err = "None"
    /\ StatusBad =>
         /\ req.cause[1] = "bad "
         /\ req.cause[2] = req.args["status"]
         /\ req.cause[4] = req.res.status_code
    /\ (~StatusBad /\ ContentBad) =>
         /\ req.cause[1] = "cannot find "
         /\ req.cause[2] = req.args["content"]

C14_Witness ==
  /\ Sent /\ StatusBad /\ ContentBad
  /\ req.cause[1] = "bad " /\ req.cause[2] = "200" /\ req.cause[4] = "401"

\* C15: a request that got a response returns it to the caller exactly when no
\* check failed; a failed check raises, _AssertError when FLASK_TESTER_TESTING is
\* set and pytest's failure otherwise, and the response is not returned.
C15_ReturnsUnlessCheckFailed ==
  Sent =>
    /\ req.returned <=> ~(StatusBad \/ ContentBad)
    /\ (StatusBad \/ ContentBad) =>
         req.err = IF FLASK_TESTER_TESTING THEN "_AssertError" ELSE "Failed"

C15_Witness ==
  /\ Sent /\ ~StatusBad /\ ContentBad
  /\ FLASK_TESTER_TESTING /\ req.err = "_AssertError" /\ ~req.returned

\* C15 as stated: the response is returned whether or not a check failed
C15_ReturnsEitherWay == Sent => req.returned

\* a request called with both a JSON body and a form body
BothBodies == IsRequest /\ {"json", "data"} \subseteq DOMAIN req.opts

C17_LoginResolution ==
  IsRequest =>
    /\ "login" \notin DOMAIN req.opts => req.login = _default_login
    /\ "login" \in DOMAIN req.opts => req.login = req.opts["login"]
    /\ last.op = "setAuth" /\ last.login = req.login
    /\ "login" \notin DOMAIN kw
    /\ req.login = None =>
         /\ req.sent
         /\ kw = Normalise(MergeBodies(Options(req.opts)))
         /\ ck = CookieBag(req.opts)
    /\ (req.login # None /\ req.auth = None) =>
         /\ req.login \in DOMAIN _tokens =>
              kw["headers"]["Authorization"] = "Bearer " \o _tokens[req.login]
         /\ (req.login \notin DOMAIN _tokens /\ req.login \in DOMAIN _passes) =>
              kw["auth"] = <<req.login, _passes[req.login]>>
         /\ ck = StoredCookies(req.login)

C17_Witness ==
  /\ IsRequest /\ "login" \in DOMAIN req.opts /\ req.opts["login"] = None
  /\ _default_login = "calvin" /\ "calvin" \in DOMAIN _passes
  /\ StoredCookies("calvin") # NoDict
  /\ req.sent /\ "auth" \notin DOMAIN kw /\ ck = NoDict

\* C18: when a request of the in-process client reaches the application, the
\* jar of the test client holds exactly the cookie bag of this request, so no
\* cookie of an earlier request that is not in this bag is left in it; every
\* cookie of the jar is one the client recorded as sent.
C18_JarIsCurrentBag ==
  /\ Sent => req.jar = ck /\ jar = ck
  /\ DOMAIN jar \subseteq _cookie_names

C18_Witness ==
  /\ Sent /\ ck # NoDict /\ jar = ck
  /\ _cookie_names \ DOMAIN ck # {}

\* the state right after a call of RequestClient._request
IsNetRequest == net.op = "_request"
\* ... that sent the request to the server
NetSent == IsNetRequest /\ net.sent

C20_AdapterNeverRaises ==
  NetSent =>
    /\ "raises" \in DOMAIN net.raw.json => ~net.res.is_json /\ net.res.json = "None"
    /\ "returns" \in DOMAIN net.raw.json =>
         net.res.is_json /\ net.res.json = net.raw.json["returns"]
    /\ net.res.status_code = net.raw.status_code
    /\ net.res.data = net.raw.content
    /\ net.res.text = net.raw.text
    /\ net.res.headers = net.raw.headers
    /\ net.res.cookies = net.raw.cookies

C20_Witness ==
  /\ NetSent /\ "raises" \in DOMAIN net.raw.json /\ net.raw.json["raises"] = "JSONDecodeError"
  /\ ~net.res.is_json /\ net.res.json = "None" /\ net.res.status_code = "501"

\* C21: once a hook is registered, every accepted setPass(login, value), value
\* absent included, invokes the hook exactly once with (login, value), when the
\* password store already holds value for login; the hook invoked is the one most
\* recently registered; a rejected setPass, setToken and setCookie invoke no hook.
C21_HookProtocol ==
  [][ /\ last'.op = "setHook" => _auth_hook' = last'.val
      /\ last'.op # "setHook" => UNCHANGED _auth_hook
      /\ (last'.op = "setPass" /\ last'.err = None /\ _auth_hook # None) =>
           /\ last'.hook = << <<_auth_hook, last'.login, last'.val, last'.val>> >>
           /\ Get(_passes', last'.login, None) = last'.val
      /\ (last'.op = "setPass" /\ (last'.err # None \/ _auth_hook = None)) =>
           last'.hook = <<>>
      /\ last'.op \in {"setToken", "setCookie"} => last'.hook = <<>>
    ]_vars

C21_Witness ==
  /\ last.op = "setPass" /\ last.err = None
  /\ last.had = None /\ last.val # None
  /\ _auth_hook = "otherHook"
  /\ last.hook = << <<"otherHook", last.login, last.val, last.val>> >>

\* an accepted setter call of the last step
Accepted(c) == IsSetter(c) /\ c.err = None

\* what the stores hold after an accepted setter call: the entry of the key is
\* there exactly when a value was set, and holds that value
EntryIffSet ==
  /\ (last'.op = "setPass" /\ last'.err = None) =>
       Get(_passes', last'.login, None) = last'.val
  /\ (last'.op = "setToken" /\ last'.err = None) =>
       Get(_tokens', last'.login, None) = last'.val
  /\ (last'.op = "setCookie" /\ last'.err = None) =>
       Get(Get(_cookies', last'.login, NoDict), last'.name, None) = last'.val

\* no store keeps the absent value as the value of an entry
NoTombstone ==
  /\ \A l \in DOMAIN _passes : _passes[l] # None
  /\ \A l \in DOMAIN _tokens : _tokens[l] # None
  /\ \A l \in DOMAIN _cookies : \A n \in DOMAIN _cookies[l] : _cookies[l][n] # None

\* C22: over any sequence of setPass, setToken and setCookie, a password, a token
\* or a cookie (login, name) has an entry exactly when it is currently set, and
\* setting it to absent removes that entry, no tombstone; a login that setCookie was
\* called for keeps its own, possibly empty, mapping in the cookie store.
C22_EntryIffSet ==
  [][ /\ EntryIffSet
      /\ NoTombstone'
      /\ (last'.op = "setCookie" /\ last'.err = None) => last'.login \in DOMAIN _cookies'
    ]_vars

C22_Witness ==
  /\ last.op = "setCookie" /\ last.val = None /\ last.had # None
  /\ last.login \in DOMAIN _cookies /\ _cookies[last.login] = NoDict

\* C22 as stated: moreover removing the last cookie of a login, or a cookie of a
\* login that never had one, leaves no entry for the login in the cookie mapping
C22_NoEmptyCookieEntry ==
  [][ /\ EntryIffSet
      /\ NoTombstone'
      /\ \A l \in DOMAIN _cookies' : _cookies'[l] # NoDict
    ]_vars

\* the cookies option of the request, empty without one
CookiesOption == Get(req.opts, "cookies", NoDict)
\* the cookies setAuth writes for the login of the request: the stored cookies of
\* the login, and the token under the cookie scheme
WrittenCookies ==
  IF req.login = None THEN NoDict
  ELSE Update(Get(_cookies, req.login, NoDict),
              IF last.carrier = "cookie" THEN [x \in {_cookie} |-> _tokens[req.login]]
              ELSE NoDict)

\* C23: the cookie bag handed to the transport maps every name of the call's
\* cookies option to the value the caller supplied, unless setAuth writes that name
\* for the login of the call (a cookie stored for the login, or the token under the
\* cookie scheme), whose value then replaces the caller's; the cookies option is
\* not among the options passed to the transport.
C23_CookiesOptionInBag ==
  Sent =>
    /\ \A n \in DOMAIN CookiesOption :
         /\ n \in DOMAIN ck
         /\ ck[n] = IF n \in DOMAIN WrittenCookies THEN WrittenCookies[n]
                    ELSE CookiesOption[n]
    /\ "cookies" \notin DOMAIN kw

C23_Witness ==
  /\ Sent /\ CookiesOption = [lang |-> "it", auth |-> "mine"]
  /\ req.login = "calvin" /\ last.carrier = "cookie"
  /\ ck["lang"] = "it" /\ ck["auth"] = "tok1"

\* C23 as stated: the bag holds the caller's value for every login
C23_CallerValueInBag ==
  Sent =>
    /\ \A n \in DOMAIN CookiesOption : n \in DOMAIN ck /\ ck[n] = CookiesOption[n]
    /\ "cookies" \notin DOMAIN kw

\* the entries of the three stores: the password and the token of a login, and
\* the cookie of a login and a name, None when absent
PassOf(passes, l) == Get(passes, l, None)
TokenOf(tokens, l) == Get(tokens, l, None)
CookieOf(cooks, l, n) == Get(Get(cooks, l, NoDict), n, None)

\* no entry of the stores changes in the step
EntriesUnchanged ==
  \A l \in Logins :
    /\ PassOf(_passes', l) = PassOf(_passes, l)
    /\ TokenOf(_tokens', l) = TokenOf(_tokens, l)
    /\ \A n \in CookieNames : CookieOf(_cookies', l, n) = CookieOf(_cookies, l, n)

\* the step changes at most the entry the call c is about, which becomes c.val
OnlyEntryOf(c) ==
  \A l \in Logins :
    /\ PassOf(_passes', l) =
         IF c.op = "setPass" /\ l = c.login THEN c.val ELSE PassOf(_passes, l)
    /\ TokenOf(_tokens', l) =
         IF c.op = "setToken" /\ l = c.login THEN c.val ELSE TokenOf(_tokens, l)
    /\ \A n \in CookieNames :
         CookieOf(_cookies', l, n) =
           IF c.op = "setCookie" /\ l = c.login /\ n = c.name THEN c.val
           ELSE CookieOf(_cookies, l, n)

\* C24: over any interleaving of setters and requests, the entries of the stores
\* change only in an accepted setPass, setToken or setCookie, which changes the
\* entry of its key alone, to the value set or to absent; setAuth, a request, setHook
\* and a rejected setter leave every entry as it was, so each entry is what the most
\* recent accepted setter call for its key made it, and absent without such a call.
C24_StoreLifecycle ==
  [][ IF Accepted(last') THEN OnlyEntryOf(last') ELSE EntriesUnchanged ]_vars

C24_Witness ==
  /\ last.op = "setAuth" /\ last.err = None /\ last.login = "calvin"
  /\ PassOf(_passes, "calvin") = "pw1" /\ TokenOf(_tokens, "hobbes") = "tok1"

\* the keys on which two mappings differ
ChangedKeys(a, b) ==
  {x \in DOMAIN a \cup DOMAIN b : ~(x \in DOMAIN a /\ x \in DOMAIN b /\ a[x] = b[x])}
\* the keys of the parameter bag that the carrier of a scheme may change
CarrierKeys(carrier, kwargs) ==
  IF carrier \in {"bearer", "header"} THEN {"headers"}
  ELSE IF carrier = "basic" THEN {"auth"}
  ELSE IF carrier \in {"tparam", "param", "fake"} THEN {TargetBody(kwargs)}
  ELSE {}
\* the header a token carrier writes
HeaderOf(carrier) == IF carrier = "bearer" THEN "Authorization" ELSE _header

\* C25: a successful setAuth for a login changes the request at the carrier of the
\* scheme and nowhere else, apart from the merge of the login's cookies: bearer and
\* header change one entry of the headers, and the headers alone; cookie changes the
\* cookie bag alone; tparam, param and fake change the selected body alone, at the
\* injected parameters; basic changes the basic-auth field alone; none changes
\* nothing. The parameter bag has headers afterwards exactly when a header was added
\* or the caller passed headers. The request never carries both the token and a
\* password.
C25_OneCarrierChanged ==
  (IsAuthOf /\ last.err = None) =>
    LET merged == Update(last.ck_in, StoredCookies(last.login))
        headers == Get(last.kw_in, "headers", NoDict)
        b == TargetBody(last.kw_in)
    IN /\ ChangedKeys(last.kw_in, kw) \subseteq CarrierKeys(last.carrier, last.kw_in)
       /\ ck = IF last.carrier = "cookie" THEN Put(merged, _cookie, _tokens[last.login])
               ELSE merged
       /\ last.carrier \in {"bearer", "header"} =>
            /\ ChangedKeys(headers, kw["headers"]) \subseteq {HeaderOf(last.carrier)}
            /\ HeaderOf(last.carrier) \in DOMAIN kw["headers"]
       /\ last.carrier \in {"tparam", "param", "fake"} =>
            ChangedKeys(Get(last.kw_in, b, NoDict), kw[b])
              \subseteq DOMAIN Injected(last.login, last.carrier)
       /\ "headers" \in DOMAIN kw <=>
            (last.carrier \in {"bearer", "header"} \/ "headers" \in DOMAIN last.kw_in)
       /\ last.login \in DOMAIN _tokens =>
            ~(CarriesToken(kw, ck, _tokens[last.login]) /\ ~NoPassword(kw))

C25_Witness ==
  /\ IsAuthOf /\ last.err = None /\ last.carrier = "cookie"
  /\ last.kw_in = NoDict /\ kw = NoDict
  /\ StoredCookies(last.login) # NoDict /\ ck # last.ck_in

\* C26: a call of Client.request is one pass of normalisation, setAuth, transport,
\* checks: setAuth gets the normalised options; the transport is invoked at most
\* once, exactly when setAuth returned, with the bags setAuth left; when setAuth
\* raises AuthError the call ends with it, nothing is delivered and the jar of the
\* application is not touched; a status or content failure is reported only after
\* the one invocation of the transport.
C26_LinearPipeline ==
  [][ (pending /\ ~pending' /\ req'.op = "request") =>
        /\ last'.op = "setAuth"
        /\ last'.kw_in = Normalise(MergeBodies(Options(req'.opts)))
        /\ Len(req'.transport) <= 1
        /\ Len(req'.transport) = 1 <=> last'.err = None
        /\ last'.err = None =>
             req'.transport[1] = [kwargs |-> kw', cookies |-> ck']
        /\ last'.err # None =>
             /\ req'.err = "AuthError" /\ req'.cause = last'.cause
             /\ ~req'.sent /\ ~req'.returned
             /\ UNCHANGED <<jar, _cookie_names>>
        /\ CheckFailed' => Len(req'.transport) = 1 /\ req'.sent
    ]_vars

C26_Witness ==
  /\ IsRequest /\ req.err = "AuthError" /\ req.transport = <<>>
  /\ req.args = [status |-> "200"] /\ req.login = "calvin"
  /\ "calvin" \in DOMAIN _passes

\* setAuth for a login ended with AuthError
AuthFailed == IsAuthOf /\ last.err = AuthError

\* C27: whenever setAuth raises AuthError, the request parameter bag is exactly as
\* the caller passed it, and the cookie bag is the caller's with the cookies stored
\* for the login merged into it, the same bag when the login has no stored cookie.
C27_FailureLeavesParameters ==
  AuthFailed =>
    /\ kw = last.kw_in
    /\ ck = Update(last.ck_in, StoredCookies(last.login))
    /\ StoredCookies(last.login) = NoDict => ck = last.ck_in

C27_Witness ==
  /\ AuthFailed /\ last.cause = "auth is not allowed"
  /\ last.kw_in # NoDict /\ kw = last.kw_in
  /\ "lang" \in DOMAIN StoredCookies(last.login)
  /\ ck # last.ck_in /\ ck["lang"] = StoredCookies(last.login)["lang"]

\* C27 as stated: a failed setAuth leaves both bags exactly as the caller passed them
C27_FailureLeavesBothBags ==
  AuthFailed => kw = last.kw_in /\ ck = last.ck_in

\* C28: in every state reached through the constructor and the setters, a token is
\* stored only if some token scheme is allowed and a password only if some password
\* scheme is allowed, and setAuth never fails with "no token carrier" or "no
\* password carrier": its only causes of failure are an unknown scheme, a scheme
\* that is not allowed, and no authentication possible.
C28_CarrierAlwaysFound ==
  /\ _tokens # NoDict => _allow \cap _TOKEN_SCHEMES # {}
  /\ _passes # NoDict => _allow \cap _PASS_SCHEMES # {}
  /\ IsSetAuth =>
       /\ last.cause \notin {"no token carrier", "no password carrier"}
       /\ last.err # None =>
            /\ last.err = AuthError
            /\ last.cause \in {"unexpected auth", "auth is not allowed", "no authentication"}

C28_Witness ==
  /\ AuthFailed /\ last.cause = "no authentication"
  /\ last.auth = "basic" /\ "basic" \in _allow
  /\ last.login \in DOMAIN _tokens /\ last.login \notin DOMAIN _passes
  /\ _allow \cap _TOKEN_SCHEMES = {"cookie"}

\* the options handed to the transport by the request
Handed == req.transport[1].kwargs

\* C29: whatever the JSON body, the form body, the login, the scheme and the
\* default parameter type of a call of Client.request, the options handed to the
\* transport never hold both a JSON body and a form body; so when they hold a form
\* body, from which the network transport takes the files, they hold no JSON body,
\* and its assertion that files are not mixed with JSON cannot fail.
C29_OneBodyHanded ==
  Sent =>
    /\ ~({"json", "data"} \subseteq DOMAIN Handed)
    /\ "data" \in DOMAIN Handed => "json" \notin DOMAIN Handed
    /\ BothBodies => Bodies(Handed) = {"data"}

C29_Witness ==
  /\ Sent /\ BothBodies /\ _ptype = "json"
  /\ last.carrier = "tparam"
  /\ DOMAIN Handed = {"data"}
  /\ Handed["data"]["AUTH"] = "tok1"

\* every form under which a credential travels
AllCredentials == Tokens \cup {_bearer \o " " \o t : t \in Tokens} \cup Passwords
\* the credentials among what the request handed to the transport
DeliveredCredentials ==
  AllCredentials \cap Leaves(Handed, req.transport[1].cookies)
\* the credential that the login, the scheme and the stores of the call select
SelectedCredentials ==
  IF req.login = None THEN {}
  ELSE IF last.carrier = "bearer" THEN {_bearer \o " " \o _tokens[req.login]}
  ELSE IF last.carrier \in {"header", "tparam", "cookie"} THEN {_tokens[req.login]}
  ELSE IF last.carrier \in {"basic", "param"} THEN {_passes[req.login]}
  ELSE {}

\* C30: the credentials a call delivers are those that its login, its scheme and
\* the stores at that moment select, and none for a call whose login is absent,
\* also when the caller passes the headers, JSON body or form body mapping that it
\* passed to an earlier authenticated call.
C30_NoCredentialPersists ==
  Sent =>
    /\ DeliveredCredentials = SelectedCredentials
    /\ req.login = None => DeliveredCredentials = {}

====
